---- MODULE Spec2Model ----
(***************************************************************************)
(* Access-control and task-lifecycle rules of the project-management       *)
(* backend: the auth, user and task controllers, the authenticate /        *)
(* authorize middleware, the JWT utility and the OAuth service, over one   *)
(* relational store (User, Task, TaskAssignment, ActivityLog).             *)
(*                                                                         *)
(* Optional request fields and nullable values are sets of at most one     *)
(* element: {} is "absent", {v} is "present with value v".                 *)
(***************************************************************************)
EXTENDS Integers, Sequences, FiniteSets, TLC

VARIABLES
  users,        \* User table: id -> row
  nextUserId,   \* ids are never reused (uuid)
  nextInvite,   \* invite tokens are fresh random values
  now,          \* wall clock, in minutes
  accessTokens, \* per client: the access token it presents as Bearer
  cookies,      \* per client: the refresh token cookie it holds
  accepts,      \* acceptInvite requests in flight, one per connection slot
  acceptCount,  \* per invite token: acceptInvite requests that succeeded with it
  pending,      \* requests that write a user's email, in flight, one per slot
  tasks,        \* Task table: id -> row
  nextTaskId,   \* ids are never reused (uuid)
  assignments,  \* TaskAssignment rows: set of <<taskId, userId>>
  activityLog,  \* ActivityLog rows, in insertion order
  reqs,         \* task requests in flight, one per connection slot
  projects,     \* Project table: id -> row
  nextProjectId, \* ids are never reused (uuid)
  last          \* the last response sent

vars == <<users, nextUserId, nextInvite, now, accessTokens, cookies, accepts,
          acceptCount, pending, tasks, nextTaskId, assignments, activityLog, reqs,
          projects, nextProjectId, last>>

----------------------------------------------------------------------------
(* Bounds *)

MaxUsers == 4      \* user rows ever created (3 seeded)
MaxTime == 14      \* days the clock may advance
MaxTasks == 1      \* task rows ever created
MaxLog == 3        \* ActivityLog rows
MaxReqs == 2       \* requests in flight at once
MaxProjects == 2   \* project rows ever created

----------------------------------------------------------------------------
(* Enumerations and configuration *)

Roles == {"Admin", "Manager", "Member"}
TaskStatus == {"ToDo", "InProgress", "Review", "Done"}
TaskPriority == {"Medium", "High"}

Emails == {"admin@x", "manager@x", "member@x", "new@x"}
Passwords == {"pw1", "pw2"}
Pictures == {"pic1"}

\* expiry settings, a number and its unit ("20m" is <<20, "m">>)
CredentialsAccessExpiry == <<20, "m">>
CredentialsRefreshExpiry == <<7, "d">>
OAuthAccessExpiry == <<1, "h">>
OAuthRefreshExpiry == <<30, "d">>

InviteExpiryDays == 7

\* the length of a time span, in minutes
ms(span) ==
  span[1] * (CASE span[2] = "m" -> 1
               [] span[2] = "h" -> 60
               [] span[2] = "d" -> 24 * 60)

----------------------------------------------------------------------------
(* Password hashing *)

hashPassword(p) == <<"bcrypt", p>>

comparePassword(p, h) == h = hashPassword(p)

\* hash of a random string no client knows
randomPassword == hashPassword("random")

----------------------------------------------------------------------------
(* JWT utility *)

\* jwt.sign(payload, secret, { expiresIn }) at the instant iat; kind stands for
\* the secret: access and refresh tokens are signed with distinct secrets
jwtSign(payload, kind, expiresIn, iat) ==
  [kind |-> kind, id |-> payload.id, email |-> payload.email,
   role |-> payload.role, expiresIn |-> expiresIn,
   iat |-> iat, exp |-> iat + ms(expiresIn)]

\* jwt.verify with its expiry test left out
jwtVerifyIgnoreExpiration(tok, kind, at) ==
  IF tok.kind = kind
  THEN {[id |-> tok.id, email |-> tok.email, role |-> tok.role]}
  ELSE {}

\* jwt.verify(token, secret) at the instant at: the payload, or {} when it
\* throws (wrong secret, or at is not before exp)
jwtVerify(tok, kind, at) ==
  IF tok.kind = kind /\ at < tok.exp
  THEN {[id |-> tok.id, email |-> tok.email, role |-> tok.role]}
  ELSE {}

generateAccessToken(payload, method) ==
  jwtSign(payload, "access",
          IF method = "oauth" THEN OAuthAccessExpiry ELSE CredentialsAccessExpiry,
          now)

generateRefreshToken(payload, method) ==
  jwtSign(payload, "refresh",
          IF method = "oauth" THEN OAuthRefreshExpiry ELSE CredentialsRefreshExpiry,
          now)

\* FALSE when verifyAccessToken throws 'Invalid or expired access token'
verifyAccessToken(tok) == jwtVerify(tok, "access", now) # {}

\* FALSE when verifyRefreshToken throws 'Invalid or expired refresh token'
verifyRefreshToken(tok) == jwtVerify(tok, "refresh", now) # {}

tokenPayload(id, u) == [id |-> id, email |-> u.email, role |-> u.role]

----------------------------------------------------------------------------
(* Store helpers *)

UserIds == 1..MaxUsers

UserRow(email, password, role, isActive, avatar, inviteToken, inviteTokenExpiry) ==
  [email |-> email, password |-> password, role |-> role,
   isActive |-> isActive, avatar |-> avatar,
   inviteToken |-> inviteToken, inviteTokenExpiry |-> inviteTokenExpiry]

\* prisma.user.findUnique({ where: { email } }): ids of the rows with that email
findByEmail(email) == {i \in DOMAIN users : users[i].email = email}

Slots == 1..MaxReqs

Opt(S) == {{}} \cup {{x} : x \in S}

The(S) == CHOOSE x \in S : TRUE

\* a response: the handler, its status code, the authenticated caller and the
\* role authenticate read for it (0, "none": an 401 or a public route), the
\* user or task id the request names (0: none), the request body where a
\* property needs it, the access token in the response body, the refresh
\* cookie the response sets, and the tasks whose data it carries (for oauth:
\* the ids its findUnique returned, or the message of a failed verification)
Resp(op, code, auth, target, req, at, rt, data) ==
  [op |-> op, code |-> code,
   actor |-> IF auth = {} THEN 0 ELSE The(auth).id,
   role |-> IF auth = {} THEN "none" ELSE The(auth).role,
   target |-> target, req |-> req,
   accessToken |-> at, cookie |-> rt, data |-> data]

Reply(op, code, auth, target, req) == Resp(op, code, auth, target, req, {}, {}, {})

NoResp == Reply("none", 0, {}, 0, {})

ClientState == <<accessTokens, cookies>>
InviteState == <<accepts, acceptCount, pending>>
UserState == <<users, nextUserId, nextInvite>>
ProjectState == <<projects, nextProjectId>>
TaskState == <<tasks, nextTaskId, assignments, activityLog, reqs, ProjectState>>

Put(f, k, v) == [x \in DOMAIN f \cup {k} |-> IF x = k THEN v ELSE f[x]]

Drop(f, k) == [x \in DOMAIN f \ {k} |-> f[x]]

\* a task request in flight: its handler, position, caller, the task it names,
\* its body, the row findUnique returned, its status code once answered, and
\* the tables it has written to
NoData == [status |-> {}, priority |-> {}, assigneeIds |-> {}, sprintId |-> {}]

Req(op, pc, auth, task, data) ==
  [op |-> op, pc |-> pc,
   actor |-> IF auth = {} THEN 0 ELSE The(auth).id,
   role |-> IF auth = {} THEN "none" ELSE The(auth).role,
   task |-> task, data |-> data, existing |-> {}, code |-> 0, wrote |-> {}]

Finish(r, code) == [r EXCEPT !.pc = "done", !.code = code]

IdleReq == Req("none", "idle", {}, 0, NoData)

----------------------------------------------------------------------------
(* Middleware *)

\* authenticate: the bearer token must verify and its user must still exist;
\* req.user is read from the store, not from the token.  {} is a 401.
\* an authenticate that trusts the token's payload and reads no user row
authenticateTokenRole(tok) ==
  IF verifyAccessToken(tok)
  THEN {[id |-> tok.id, email |-> tok.email, role |-> tok.role]}
  ELSE {}

authenticate(tok) ==
  IF verifyAccessToken(tok) /\ tok.id \in DOMAIN users
  THEN {[id |-> tok.id, email |-> users[tok.id].email,
         role |-> users[tok.id].role]}
  ELSE {}

authorize(allowedRoles, reqUser) == reqUser.role \in allowedRoles

requireAdminOrManager(reqUser) == authorize({"Admin", "Manager"}, reqUser)

----------------------------------------------------------------------------
(* Initial state: the seeded store (one Admin, one Manager, one Member), each
   seeded user logged in with credentials *)

SeedUsers ==
  (1 :> UserRow("admin@x", hashPassword("pw1"), "Admin", TRUE, {}, {}, {})) @@
  (2 :> UserRow("manager@x", hashPassword("pw1"), "Manager", TRUE, {}, {}, {})) @@
  (3 :> UserRow("member@x", hashPassword("pw1"), "Member", TRUE, {}, {}, {}))

IdleAccept == [pc |-> "idle"]

\* an updateUser body that changes nothing
NoUserData == [email |-> {}, role |-> {}, isActive |-> {}]

\* a request that writes a user's email, in flight: its handler, position,
\* caller, the user id it names, found or has created, the email it writes
\* (none: it writes none), the row it is about to insert, the body it is
\* about to apply, and its status code once answered
Pending(op, pc, auth, id, email, row, data, code) ==
  [op |-> op, pc |-> pc,
   actor |-> IF auth = {} THEN 0 ELSE The(auth).id,
   id |-> id, email |-> email, row |-> row, data |-> data, code |-> code]

IdlePending == Pending("none", "idle", {}, 0, {}, {}, NoUserData, 0)

Init ==
  /\ users = SeedUsers
  /\ nextUserId = 4
  /\ nextInvite = 1
  /\ now = 0
  /\ accessTokens = [i \in DOMAIN SeedUsers |->
        generateAccessToken(tokenPayload(i, SeedUsers[i]), "credentials")]
  /\ cookies = [i \in DOMAIN SeedUsers |->
        generateRefreshToken(tokenPayload(i, SeedUsers[i]), "credentials")]
  /\ accepts = [s \in Slots |-> IdleAccept]
  /\ acceptCount = [t \in UserIds |-> 0]
  /\ pending = [s \in Slots |-> IdlePending]
  /\ tasks = <<>>
  /\ nextTaskId = 1
  /\ assignments = {}
  /\ activityLog = <<>>
  /\ reqs = [s \in Slots |-> IdleReq]
  /\ projects = <<>>
  /\ nextProjectId = 1
  /\ last = NoResp

----------------------------------------------------------------------------
(* Auth controller *)

register(email, password, role) ==
  /\ IF findByEmail(email) # {}
     THEN /\ last' = Reply("register", 400, {}, 0, {})
          /\ UNCHANGED <<users, nextUserId>>
     ELSE /\ nextUserId <= MaxUsers
          /\ users' = Put(users, nextUserId,
               UserRow(email, hashPassword(password),
                       IF role = {} THEN "Member" ELSE The(role),
                       FALSE, {}, {}, {}))
          /\ nextUserId' = nextUserId + 1
          /\ last' = Reply("register", 201, {}, nextUserId, {})
  /\ UNCHANGED <<nextInvite, now, ClientState, InviteState, TaskState>>

\* the checks of the earlier login: an inactive account is refused before
\* the password is compared
loginCheckActiveGate(found, password) ==
  IF found = {} THEN 401
  ELSE IF ~users[The(found)].isActive THEN 403
  ELSE IF ~comparePassword(password, users[The(found)].password) THEN 401
  ELSE 0

\* the message of a refused login
loginMessage(found, password) ==
  IF found = {} THEN "Invalid email or password"
  ELSE IF ~comparePassword(password, users[The(found)].password)
  THEN "Invalid email or password"
  ELSE ""

\* the checks of login, in order: 0 when it goes on to issue tokens
loginCheck(found, password) ==
  IF found = {} THEN 401
  ELSE IF ~comparePassword(password, users[The(found)].password) THEN 401
  ELSE 0

login(email, password) ==
  LET found == findByEmail(email)
      code == loginCheck(found, password)
      id == IF found = {} THEN 0 ELSE The(found)
      req == [password |-> password]
  IN
  /\ IF code # 0
     THEN /\ last' = Reply("login", code, {}, id, req)
          /\ UNCHANGED ClientState
     ELSE LET payload == tokenPayload(id, users[id])
              accessToken == generateAccessToken(payload, "credentials")
              refreshTok == generateRefreshToken(payload, "credentials")
          IN
          /\ accessTokens' = Put(accessTokens, id, accessToken)
          /\ cookies' = Put(cookies, id, refreshTok)
          /\ last' = Resp("login", 200, {}, id, req, {accessToken}, {refreshTok}, {})
  /\ UNCHANGED <<UserState, now, InviteState, TaskState>>

\* the method refreshToken passes to generateAccessToken
refreshMethod(presented) == "credentials"

\* presented: the refresh cookie or body field, {} when neither is sent
refreshToken(presented) ==
  /\ IF presented = {}
     THEN /\ last' = Reply("refresh", 401, {}, 0, presented)
          /\ UNCHANGED accessTokens
     ELSE LET tok == The(presented) IN
          IF ~verifyRefreshToken(tok) \/ tok.id \notin DOMAIN users
          THEN /\ last' = Reply("refresh", 401, {}, 0, presented)
               /\ UNCHANGED accessTokens
          ELSE LET accessToken == generateAccessToken(
                      tokenPayload(tok.id, users[tok.id]), refreshMethod(tok))
               IN
               /\ accessTokens' = Put(accessTokens, tok.id, accessToken)
               /\ last' = Resp("refresh", 200, {}, tok.id, presented,
                               {accessToken}, {}, {})
  /\ UNCHANGED <<UserState, now, cookies, InviteState, TaskState>>

----------------------------------------------------------------------------
(* OAuth verification and service *)

\* what the provider says of an assertion: whether it is valid, and the email
\* and picture claims it carries
Assertions ==
  [valid : BOOLEAN, email : Opt({"member@x", "new@x"}), picture : Opt(Pictures)]

\* the message verification throws with ("": it does not throw)
verifyError(a) ==
  IF ~a.valid THEN "Invalid token"
  ELSE IF a.email = {} THEN "Email is required"
  ELSE ""

\* verifyGoogleToken without its email test: an assertion with no email claim
\* passes, its email field whatever the payload holds there
verifyGoogleTokenNoEmailTest(a) ==
  IF ~a.valid THEN {}
  ELSE {[email |-> IF a.email = {} THEN "undefined" ELSE The(a.email),
         picture |-> a.picture]}

\* {} when verification throws, else the user info
verifyGoogleToken(a) ==
  IF ~a.valid \/ a.email = {} THEN {}
  ELSE {[email |-> The(a.email), picture |-> a.picture]}

verifyFacebookToken(a) ==
  IF ~a.valid \/ a.email = {} THEN {}
  ELSE {[email |-> The(a.email), picture |-> a.picture]}

\* the gate of the earlier handleOAuth: an existing inactive user is refused
oauthCheckActive(found) ==
  IF found # {} /\ ~users[The(found)].isActive THEN 401 ELSE 0

\* what handleOAuth checks of the user findUnique returned before it goes on:
\* nothing (0: it goes on)
oauthCheck(found) == 0

oauth(provider, a) ==
  LET verified == IF provider = "google" THEN verifyGoogleToken(a)
                                        ELSE verifyFacebookToken(a)
  IN
  /\ IF verified = {} \/ oauthCheck(findByEmail(The(verified).email)) # 0
     THEN /\ last' = Resp("oauth", 401, {}, 0, verified, {}, {}, {verifyError(a)})
          /\ UNCHANGED <<users, nextUserId, ClientState>>
     ELSE LET userInfo == The(verified)
              found == findByEmail(userInfo.email)
              id == IF found = {} THEN nextUserId ELSE The(found)
              row == IF found = {}
                     THEN UserRow(userInfo.email, randomPassword, "Member", FALSE,
                                  userInfo.picture, {}, {})
                     ELSE IF userInfo.picture # {} /\ userInfo.picture # users[id].avatar
                     THEN [users[id] EXCEPT !.avatar = userInfo.picture]
                     ELSE users[id]
              payload == tokenPayload(id, row)
              accessToken == generateAccessToken(payload, "oauth")
              refreshTok == generateRefreshToken(payload, "oauth")
          IN
          /\ found = {} => nextUserId <= MaxUsers
          /\ users' = Put(users, id, row)
          /\ nextUserId' = IF found = {} THEN nextUserId + 1 ELSE nextUserId
          /\ accessTokens' = Put(accessTokens, id, accessToken)
          /\ cookies' = Put(cookies, id, refreshTok)
          /\ last' = Resp("oauth", 200, {}, id, verified, {accessToken}, {refreshTok}, found)
  /\ UNCHANGED <<nextInvite, now, InviteState, TaskState>>

----------------------------------------------------------------------------
(* Invitations *)

\* the lookup of acceptInvite without its expiry condition
findInvitedAnyExpiry(token) ==
  {i \in DOMAIN users : users[i].inviteToken = {token}}

\* prisma.user.findFirst({ where: { inviteToken, inviteTokenExpiry: { gte: now } } })
findInvited(token) ==
  {i \in DOMAIN users :
     /\ users[i].inviteToken = {token}
     /\ \E e \in users[i].inviteTokenExpiry : e >= now}

\* acceptInvite up to its findFirst
acceptInviteFind(slot, token, password) ==
  /\ accepts[slot].pc = "idle"
  /\ LET found == findInvited(token) IN
     IF found = {}
     THEN /\ last' = Reply("acceptInvite", 400, {}, 0, [token |-> token])
          /\ UNCHANGED accepts
     ELSE /\ accepts' = [accepts EXCEPT ![slot] =
               [pc |-> "update", token |-> token, password |-> password,
                user |-> The(found)]]
          /\ UNCHANGED last
  /\ UNCHANGED <<UserState, now, ClientState, acceptCount, pending, TaskState>>

\* acceptInvite from its prisma.user.update on
acceptInviteUpdate(slot) ==
  /\ accepts[slot].pc = "update"
  /\ LET r == accepts[slot]
         id == r.user
     IN
     IF id \notin DOMAIN users
     THEN /\ last' = Reply("acceptInvite", 500, {}, id, [token |-> r.token])
          /\ UNCHANGED <<users, ClientState, acceptCount>>
     ELSE LET row == [users[id] EXCEPT !.password = hashPassword(r.password),
                                       !.inviteToken = {},
                                       !.inviteTokenExpiry = {},
                                       !.isActive = TRUE]
              payload == tokenPayload(id, row)
              accessToken == generateAccessToken(payload, "credentials")
              refreshTok == generateRefreshToken(payload, "credentials")
          IN
          /\ users' = [users EXCEPT ![id] = row]
          /\ accessTokens' = Put(accessTokens, id, accessToken)
          /\ cookies' = Put(cookies, id, refreshTok)
          /\ acceptCount' = [acceptCount EXCEPT ![r.token] = @ + 1]
          /\ last' = Resp("acceptInvite", 200, {}, id, [token |-> r.token],
                          {accessToken}, {refreshTok}, {})
  /\ accepts' = [accepts EXCEPT ![slot] = IdleAccept]
  /\ UNCHANGED <<nextUserId, nextInvite, now, pending, TaskState>>

\* a week passes
Tick ==
  /\ now + ms(<<InviteExpiryDays, "d">>) <= ms(<<MaxTime, "d">>)
  /\ now' = now + ms(<<InviteExpiryDays, "d">>)
  /\ UNCHANGED <<UserState, ClientState, InviteState, TaskState, last>>

----------------------------------------------------------------------------
(* User controller, behind router.use(authenticate).  client: whose access
   token the request carries. *)

\* request bodies of updateUser: any role and isActive, or an email alone
UserData ==
  {d \in [email : Opt({"admin@x"}), role : Opt(Roles), isActive : Opt(BOOLEAN)] :
     d.email = {} \/ (d.role = {} /\ d.isActive = {})}

createUser(client, email, password, role) ==
  LET auth == authenticate(accessTokens[client]) IN
  /\ IF auth = {}
     THEN /\ last' = Reply("createUser", 401, auth, 0, {})
          /\ UNCHANGED <<users, nextUserId>>
     ELSE IF ~requireAdminOrManager(The(auth))
     THEN /\ last' = Reply("createUser", 403, auth, 0, {})
          /\ UNCHANGED <<users, nextUserId>>
     ELSE IF findByEmail(email) # {}
     THEN /\ last' = Reply("createUser", 400, auth, 0, {})
          /\ UNCHANGED <<users, nextUserId>>
     ELSE /\ nextUserId <= MaxUsers
          /\ users' = Put(users, nextUserId,
               UserRow(email,
                       IF password = {} THEN randomPassword
                       ELSE hashPassword(The(password)),
                       role, TRUE, {}, {}, {}))
          /\ nextUserId' = nextUserId + 1
          /\ last' = Reply("createUser", 201, auth, nextUserId, {})
  /\ UNCHANGED <<nextInvite, now, ClientState, InviteState, TaskState>>

\* the checks of updateUser without "Only administrators can change user roles"
updateUserCheckNoAdminGuard(reqUser, id, data) ==
  IF id \notin DOMAIN users THEN 404
  ELSE IF reqUser.role # "Admin" /\ reqUser.role # "Manager" /\ reqUser.id # id
  THEN 403
  ELSE IF reqUser.id = id /\ data.role # {} /\ data.role # {users[id].role}
  THEN 403
  ELSE IF data.isActive # {} /\ reqUser.role # "Admin" /\ reqUser.role # "Manager"
  THEN 403
  ELSE IF data.email # {} /\ data.email # {users[id].email}
          /\ \E e \in data.email : findByEmail(e) # {}
  THEN 400
  ELSE 0

\* the checks of updateUser, in order: 0 when it goes on to prisma.user.update
updateUserCheck(reqUser, id, data) ==
  IF id \notin DOMAIN users THEN 404
  ELSE IF reqUser.role # "Admin" /\ reqUser.role # "Manager" /\ reqUser.id # id
  THEN 403
  ELSE IF reqUser.id = id /\ data.role # {} /\ data.role # {users[id].role}
  THEN 403
  ELSE IF data.role # {} /\ reqUser.role # "Admin"
  THEN 403
  ELSE IF data.isActive # {} /\ reqUser.role # "Admin" /\ reqUser.role # "Manager"
  THEN 403
  ELSE IF data.email # {} /\ data.email # {users[id].email}
          /\ \E e \in data.email : findByEmail(e) # {}
  THEN 400
  ELSE 0

updateUser(client, id, data) ==
  LET auth == authenticate(accessTokens[client]) IN
  /\ IF auth = {}
     THEN /\ last' = Reply("updateUser", 401, auth, id, data)
          /\ UNCHANGED users
     ELSE LET code == updateUserCheck(The(auth), id, data) IN
          IF code # 0
          THEN /\ last' = Reply("updateUser", code, auth, id, data)
               /\ UNCHANGED users
          ELSE /\ users' = [users EXCEPT ![id] =
                    [@ EXCEPT
                       !.email = IF data.email = {} THEN @ ELSE The(data.email),
                       !.role = IF data.role = {} THEN @ ELSE The(data.role),
                       !.isActive = IF data.isActive = {} THEN @
                                    ELSE The(data.isActive)]]
               /\ last' = Reply("updateUser", 200, auth, id, data)
  /\ UNCHANGED <<nextUserId, nextInvite, now, ClientState, InviteState, TaskState>>

activateUser(client, id) ==
  LET auth == authenticate(accessTokens[client]) IN
  /\ IF auth = {}
     THEN /\ last' = Reply("activateUser", 401, auth, id, {})
          /\ UNCHANGED users
     ELSE IF id \notin DOMAIN users
     THEN /\ last' = Reply("activateUser", 404, auth, id, {})
          /\ UNCHANGED users
     ELSE IF users[id].isActive
     THEN /\ last' = Reply("activateUser", 400, auth, id, {})
          /\ UNCHANGED users
     ELSE /\ users' = [users EXCEPT ![id].isActive = TRUE]
          /\ last' = Reply("activateUser", 200, auth, id, {})
  /\ UNCHANGED <<nextUserId, nextInvite, now, ClientState, InviteState, TaskState>>

deactivateUser(client, id) ==
  LET auth == authenticate(accessTokens[client]) IN
  /\ IF auth = {}
     THEN /\ last' = Reply("deactivateUser", 401, auth, id, {})
          /\ UNCHANGED users
     ELSE IF id \notin DOMAIN users
     THEN /\ last' = Reply("deactivateUser", 404, auth, id, {})
          /\ UNCHANGED users
     ELSE IF id = The(auth).id
     THEN /\ last' = Reply("deactivateUser", 400, auth, id, {})
          /\ UNCHANGED users
     ELSE IF ~users[id].isActive
     THEN /\ last' = Reply("deactivateUser", 400, auth, id, {})
          /\ UNCHANGED users
     ELSE /\ users' = [users EXCEPT ![id].isActive = FALSE]
          /\ last' = Reply("deactivateUser", 200, auth, id, {})
  /\ UNCHANGED <<nextUserId, nextInvite, now, ClientState, InviteState, TaskState>>

\* the checks of deleteUser, in order: 0 when it goes on to prisma.user.delete
deleteUserCheck(reqUser, id) ==
  IF reqUser.id = id THEN 400
  ELSE IF id \notin DOMAIN users THEN 404
  ELSE 0

deleteUser(client, id) ==
  LET auth == authenticate(accessTokens[client]) IN
  /\ IF auth = {}
     THEN /\ last' = Reply("deleteUser", 401, auth, id, {})
          /\ UNCHANGED users
     ELSE LET code == deleteUserCheck(The(auth), id) IN
          IF code # 0
          THEN /\ last' = Reply("deleteUser", code, auth, id, {})
               /\ UNCHANGED users
          ELSE /\ users' = Drop(users, id)
               /\ last' = Reply("deleteUser", 200, auth, id, {})
  /\ UNCHANGED <<nextUserId, nextInvite, now, ClientState, InviteState, TaskState>>

\* inviteUser that invites an inactive holder of the email again: the row's
\* password, role, invite token and expiry are rewritten
inviteUserReinvite(client, email, role) ==
  LET auth == authenticate(accessTokens[client])
      existingUser == findByEmail(email)
  IN
  /\ IF auth = {}
     THEN /\ last' = Reply("inviteUser", 401, auth, 0, {})
          /\ UNCHANGED UserState
     ELSE IF ~requireAdminOrManager(The(auth))
     THEN /\ last' = Reply("inviteUser", 403, auth, 0, {})
          /\ UNCHANGED UserState
     ELSE IF existingUser # {} /\ users[The(existingUser)].isActive
     THEN /\ last' = Reply("inviteUser", 400, auth, The(existingUser), {})
          /\ UNCHANGED UserState
     ELSE IF existingUser # {}
     THEN /\ users' = [users EXCEPT ![The(existingUser)] =
               UserRow(email, randomPassword, role, FALSE, @.avatar,
                       {nextInvite}, {now + ms(<<InviteExpiryDays, "d">>)})]
          /\ nextInvite' = nextInvite + 1
          /\ last' = Reply("inviteUser", 201, auth, The(existingUser), {})
          /\ UNCHANGED nextUserId
     ELSE /\ nextUserId <= MaxUsers
          /\ users' = Put(users, nextUserId,
               UserRow(email, randomPassword, role, TRUE, {},
                       {nextInvite}, {now + ms(<<InviteExpiryDays, "d">>)}))
          /\ nextUserId' = nextUserId + 1
          /\ nextInvite' = nextInvite + 1
          /\ last' = Reply("inviteUser", 201, auth, nextUserId, {})
  /\ UNCHANGED <<now, ClientState, InviteState, TaskState>>

inviteUser(client, email, role) ==
  LET auth == authenticate(accessTokens[client]) IN
  /\ IF auth = {}
     THEN /\ last' = Reply("inviteUser", 401, auth, 0, {})
          /\ UNCHANGED UserState
     ELSE IF ~requireAdminOrManager(The(auth))
     THEN /\ last' = Reply("inviteUser", 403, auth, 0, {})
          /\ UNCHANGED UserState
     ELSE IF findByEmail(email) # {}
     THEN /\ last' = Reply("inviteUser", 400, auth, The(findByEmail(email)), {})
          /\ UNCHANGED UserState
     ELSE /\ nextUserId <= MaxUsers
          /\ users' = Put(users, nextUserId,
               UserRow(email, randomPassword, role, TRUE, {},
                       {nextInvite}, {now + ms(<<InviteExpiryDays, "d">>)}))
          /\ nextUserId' = nextUserId + 1
          /\ nextInvite' = nextInvite + 1
          /\ last' = Reply("inviteUser", 201, auth, nextUserId, {})
  /\ UNCHANGED <<now, ClientState, InviteState, TaskState>>

----------------------------------------------------------------------------
(* The handlers that write a user's email, one store call per step.  Each of
   register, createUser, inviteUser, handleOAuth and updateUser awaits
   prisma.user.findUnique({ where: { email } }) and, in a later await, writes
   the row; other requests run between the two.  A request in flight holds its
   position and its locals in pending[slot], and keeps its response there
   (pc = "done", code) until the slot is reused. *)

EmailFrame == <<nextInvite, now, ClientState, accepts, acceptCount, TaskState, last>>

PendingFree(slot) == pending[slot].pc \in {"idle", "done"}

\* User.email is unique in the store: a write that would give a second row the
\* same email is refused (id: the row being written, 0 for an insert)
emailTakenNever(email, id) == FALSE

emailTaken(email, id) ==
  \E i \in DOMAIN users : i # id /\ users[i].email = email

\* the status the handler's catch answers with when the store refuses a write
catchCode(op) == IF op = "oauth" THEN 401 ELSE 500

\* register up to its prisma.user.create
registerFind(slot, email, password, role) ==
  /\ PendingFree(slot)
  /\ pending' = [pending EXCEPT ![slot] =
       IF findByEmail(email) # {}
       THEN Pending("register", "done", {}, 0, {email}, {}, NoUserData, 400)
       ELSE Pending("register", "create", {}, 0, {email},
                    {UserRow(email, hashPassword(password),
                             IF role = {} THEN "Member" ELSE The(role),
                             FALSE, {}, {}, {})}, NoUserData, 0)]
  /\ UNCHANGED <<users, nextUserId, EmailFrame>>

\* createUser up to its prisma.user.create
createUserFind(slot, client, email, password, role) ==
  LET auth == authenticate(accessTokens[client]) IN
  /\ PendingFree(slot)
  /\ pending' = [pending EXCEPT ![slot] =
       IF auth = {}
       THEN Pending("createUser", "done", auth, 0, {}, {}, NoUserData, 401)
       ELSE IF ~requireAdminOrManager(The(auth))
       THEN Pending("createUser", "done", auth, 0, {}, {}, NoUserData, 403)
       ELSE IF findByEmail(email) # {}
       THEN Pending("createUser", "done", auth, 0, {email}, {}, NoUserData, 400)
       ELSE Pending("createUser", "create", auth, 0, {email},
                    {UserRow(email,
                             IF password = {} THEN randomPassword
                             ELSE hashPassword(The(password)),
                             role, TRUE, {}, {}, {})}, NoUserData, 0)]
  /\ UNCHANGED <<users, nextUserId, EmailFrame>>

\* inviteUser up to its prisma.user.create; the invite token and its expiry
\* are drawn before the create, and no two draws give the same token
inviteUserFind(slot, client, email, role) ==
  LET auth == authenticate(accessTokens[client]) IN
  /\ PendingFree(slot)
  /\ IF auth = {}
     THEN /\ pending' = [pending EXCEPT ![slot] =
               Pending("inviteUser", "done", auth, 0, {}, {}, NoUserData, 401)]
          /\ UNCHANGED nextInvite
     ELSE IF ~requireAdminOrManager(The(auth))
     THEN /\ pending' = [pending EXCEPT ![slot] =
               Pending("inviteUser", "done", auth, 0, {}, {}, NoUserData, 403)]
          /\ UNCHANGED nextInvite
     ELSE IF findByEmail(email) # {}
     THEN /\ pending' = [pending EXCEPT ![slot] =
               Pending("inviteUser", "done", auth, 0, {email}, {}, NoUserData, 400)]
          /\ UNCHANGED nextInvite
     ELSE /\ pending' = [pending EXCEPT ![slot] =
               Pending("inviteUser", "create", auth, 0, {email},
                       {UserRow(email, randomPassword, role, TRUE, {},
                                {nextInvite}, {now + ms(<<InviteExpiryDays, "d">>)})},
                       NoUserData, 0)]
          /\ nextInvite' = nextInvite + 1
  /\ UNCHANGED <<users, nextUserId, now, ClientState, accepts, acceptCount,
                 TaskState, last>>

\* handleOAuth up to its prisma.user.create or prisma.user.update; a user found
\* whose avatar needs no refresh is answered at once
oauthFind(slot, provider, a) ==
  LET verified == IF provider = "google" THEN verifyGoogleToken(a)
                                        ELSE verifyFacebookToken(a)
  IN
  /\ PendingFree(slot)
  /\ IF verified = {} \/ oauthCheck(findByEmail(The(verified).email)) # 0
     THEN /\ pending' = [pending EXCEPT ![slot] =
               Pending("oauth", "done", {}, 0, {}, {}, NoUserData, 401)]
          /\ UNCHANGED ClientState
     ELSE LET userInfo == The(verified)
              found == findByEmail(userInfo.email)
          IN
          IF found = {}
          THEN /\ pending' = [pending EXCEPT ![slot] =
                    Pending("oauth", "create", {}, 0, {userInfo.email},
                            {UserRow(userInfo.email, randomPassword, "Member",
                                     FALSE, userInfo.picture, {}, {})},
                            NoUserData, 0)]
               /\ UNCHANGED ClientState
          ELSE LET id == The(found) IN
               IF userInfo.picture # {} /\ userInfo.picture # users[id].avatar
               THEN /\ pending' = [pending EXCEPT ![slot] =
                         Pending("oauth", "avatar", {}, id, {},
                                 {[users[id] EXCEPT !.avatar = userInfo.picture]},
                                 NoUserData, 0)]
                    /\ UNCHANGED ClientState
               ELSE LET payload == tokenPayload(id, users[id]) IN
                    /\ pending' = [pending EXCEPT ![slot] =
                         Pending("oauth", "done", {}, id, {}, {}, NoUserData, 200)]
                    /\ accessTokens' = Put(accessTokens, id,
                                           generateAccessToken(payload, "oauth"))
                    /\ cookies' = Put(cookies, id,
                                      generateRefreshToken(payload, "oauth"))
  /\ UNCHANGED <<users, nextUserId, nextInvite, now, accepts, acceptCount,
                 TaskState, last>>

\* prisma.user.create of register, createUser, inviteUser and handleOAuth, and
\* the response after it
userCreate(slot) ==
  LET r == pending[slot]
      row == The(r.row)
  IN
  /\ r.pc = "create"
  /\ IF emailTaken(row.email, 0)
     THEN /\ pending' = [pending EXCEPT ![slot] =
               [r EXCEPT !.pc = "done", !.code = catchCode(r.op)]]
          /\ UNCHANGED <<users, nextUserId, ClientState>>
     ELSE /\ nextUserId <= MaxUsers
          /\ users' = Put(users, nextUserId, row)
          /\ nextUserId' = nextUserId + 1
          /\ pending' = [pending EXCEPT ![slot] =
               [r EXCEPT !.pc = "done", !.id = nextUserId,
                         !.code = IF r.op = "oauth" THEN 200 ELSE 201]]
          /\ IF r.op = "oauth"
             THEN LET payload == tokenPayload(nextUserId, row) IN
                  /\ accessTokens' = Put(accessTokens, nextUserId,
                                         generateAccessToken(payload, "oauth"))
                  /\ cookies' = Put(cookies, nextUserId,
                                    generateRefreshToken(payload, "oauth"))
             ELSE UNCHANGED ClientState
  /\ UNCHANGED <<nextInvite, now, accepts, acceptCount, TaskState, last>>

\* prisma.user.update({ data: { avatar } }) of handleOAuth, and the tokens
\* after it; the update throws when the row is gone
oauthAvatar(slot) ==
  LET r == pending[slot] IN
  /\ r.pc = "avatar"
  /\ IF r.id \notin DOMAIN users
     THEN /\ pending' = [pending EXCEPT ![slot] =
               [r EXCEPT !.pc = "done", !.code = catchCode(r.op)]]
          /\ UNCHANGED <<users, ClientState>>
     ELSE LET row == [users[r.id] EXCEPT !.avatar = The(r.row).avatar]
              payload == tokenPayload(r.id, row)
          IN
          /\ users' = [users EXCEPT ![r.id] = row]
          /\ pending' = [pending EXCEPT ![slot] =
               [r EXCEPT !.pc = "done", !.code = 200]]
          /\ accessTokens' = Put(accessTokens, r.id,
                                 generateAccessToken(payload, "oauth"))
          /\ cookies' = Put(cookies, r.id,
                            generateRefreshToken(payload, "oauth"))
  /\ UNCHANGED <<nextUserId, nextInvite, now, accepts, acceptCount, TaskState, last>>

\* updateUser up to its prisma.user.update
updateUserFind(slot, client, id, data) ==
  LET auth == authenticate(accessTokens[client])
      code == IF auth = {} THEN 401 ELSE updateUserCheck(The(auth), id, data)
  IN
  /\ PendingFree(slot)
  /\ pending' = [pending EXCEPT ![slot] =
       Pending("updateUser", IF code = 0 THEN "write" ELSE "done", auth, id,
               IF id \in DOMAIN users /\ data.email = {users[id].email}
               THEN {} ELSE data.email,
               {}, data, code)]
  /\ UNCHANGED <<users, nextUserId, EmailFrame>>

\* prisma.user.update of updateUser, and the response after it; the update
\* throws when the row is gone or the email belongs to another row
updateUserWrite(slot) ==
  LET r == pending[slot] IN
  /\ r.pc = "write"
  /\ IF \/ r.id \notin DOMAIN users
        \/ \E e \in r.data.email : emailTaken(e, r.id)
     THEN /\ pending' = [pending EXCEPT ![slot] =
               [r EXCEPT !.pc = "done", !.code = catchCode(r.op)]]
          /\ UNCHANGED users
     ELSE /\ users' = [users EXCEPT ![r.id] =
               [@ EXCEPT
                  !.email = IF r.data.email = {} THEN @ ELSE The(r.data.email),
                  !.role = IF r.data.role = {} THEN @ ELSE The(r.data.role),
                  !.isActive = IF r.data.isActive = {} THEN @
                               ELSE The(r.data.isActive)]]
          /\ pending' = [pending EXCEPT ![slot] =
               [r EXCEPT !.pc = "done", !.code = 200]]
  /\ UNCHANGED <<nextUserId, EmailFrame>>

----------------------------------------------------------------------------
(* Task controller, behind router.use(authenticate).  updateTask and createTask
   await several store calls; a request in flight holds its position (pc) and
   its locals in reqs[slot], and each action below is one store call together
   with the code that follows it up to the next await.  A finished request
   keeps its response in the slot (pc = "done", code) until the slot is reused. *)

Sprints == {"s1"}

TaskIds == 1..MaxTasks

Free(slot) == reqs[slot].pc \in {"idle", "done"}

LogRow(type, taskId, userId, oldStatus, newStatus) ==
  [type |-> type, taskId |-> taskId, userId |-> userId,
   oldStatus |-> oldStatus, newStatus |-> newStatus]

OnlyReqs(slot, r) ==
  /\ reqs' = [reqs EXCEPT ![slot] = r]
  /\ UNCHANGED <<tasks, assignments, activityLog>>

TaskFrame ==
  UNCHANGED <<UserState, now, ClientState, InviteState, nextTaskId, ProjectState, last>>

\* the status rule with the approval branch (Review to Done) open to every role
statusCheckNoApprovalGuard(role, existingStatus, newStatus) ==
  IF newStatus = "Done" /\ existingStatus = "Review"
  THEN 0
  ELSE IF newStatus = "Done" /\ existingStatus # "Review"
  THEN IF role # "Admin" /\ role # "Manager" THEN 400 ELSE 0
  ELSE 0

\* the status rule with the direct branch (not Review to Done) open to every role
statusCheckNoDirectGuard(role, existingStatus, newStatus) ==
  IF newStatus = "Done" /\ existingStatus = "Review"
  THEN IF role # "Admin" /\ role # "Manager" THEN 403 ELSE 0
  ELSE 0

\* the status rule of updateTask (lines 461-481): 0 when the change is accepted
statusCheck(role, existingStatus, newStatus) ==
  IF newStatus = "Done" /\ existingStatus = "Review"
  THEN IF role # "Admin" /\ role # "Manager" THEN 403 ELSE 0
  ELSE IF newStatus = "Done" /\ existingStatus # "Review"
  THEN IF role # "Admin" /\ role # "Manager" THEN 400 ELSE 0
  ELSE 0

\* data.status && data.status !== existingTask.status
statusChanges(r) ==
  r.data.status # {} /\ r.data.status # {The(r.existing).status}

\* assigneeUsers.some((user) => user.role === 'Admin')
hasAdmin(assigneeIds) ==
  \E u \in assigneeIds \cap DOMAIN users : users[u].role = "Admin"

\* updateTask once access is granted: the status rule, then on to the writes
afterAccess(r) ==
  IF statusChanges(r)
  THEN LET code == statusCheck(r.role, The(r.existing).status, The(r.data.status)) IN
       IF code # 0 THEN Finish(r, code) ELSE [r EXCEPT !.pc = "logStatus"]
  ELSE [r EXCEPT !.pc = "update"]

\* the request arrives: authenticate, then prisma.task.findUnique and the
\* creator half of the access check
updateTaskFind(slot, client, id, data) ==
  /\ Free(slot)
  /\ LET auth == authenticate(accessTokens[client])
         r == Req("updateTask", "find", auth, id, data)
     IN
     OnlyReqs(slot,
       IF auth = {} THEN Finish(r, 401)
       ELSE IF id \notin DOMAIN tasks THEN Finish(r, 404)
       ELSE LET found == [r EXCEPT !.existing = {tasks[id]}] IN
            IF r.role # "Admin" /\ r.role # "Manager" /\ tasks[id].creatorId # r.actor
            THEN [found EXCEPT !.pc = "access"]
            ELSE afterAccess(found))
  /\ TaskFrame

\* prisma.taskAssignment.findFirst
updateTaskAccess(slot) ==
  /\ reqs[slot].op = "updateTask" /\ reqs[slot].pc = "access"
  /\ LET r == reqs[slot] IN
     OnlyReqs(slot,
       IF <<r.task, r.actor>> \notin assignments THEN Finish(r, 403)
       ELSE afterAccess(r))
  /\ TaskFrame

\* the status_changed row written with the status the task has at the write,
\* not the one the request read
updateTaskLogStatusFresh(slot) ==
  /\ reqs[slot].op = "updateTask" /\ reqs[slot].pc = "logStatus"
  /\ Len(activityLog) < MaxLog
  /\ LET r == reqs[slot] IN
     IF r.task \notin DOMAIN tasks
     THEN OnlyReqs(slot, Finish(r, 500))
     ELSE /\ activityLog' = Append(activityLog,
               LogRow("status_changed", r.task, r.actor,
                      {tasks[r.task].status}, r.data.status))
          /\ reqs' = [reqs EXCEPT ![slot] =
               [r EXCEPT !.pc = "update", !.wrote = @ \cup {"activityLog"}]]
          /\ UNCHANGED <<tasks, assignments>>
  /\ TaskFrame

\* prisma.activityLog.create, type status_changed
updateTaskLogStatus(slot) ==
  /\ reqs[slot].op = "updateTask" /\ reqs[slot].pc = "logStatus"
  /\ Len(activityLog) < MaxLog
  /\ LET r == reqs[slot] IN
     IF r.task \notin DOMAIN tasks
     THEN OnlyReqs(slot, Finish(r, 500))
     ELSE /\ activityLog' = Append(activityLog,
               LogRow("status_changed", r.task, r.actor,
                      {The(r.existing).status}, r.data.status))
          /\ reqs' = [reqs EXCEPT ![slot] =
               [r EXCEPT !.pc = "update", !.wrote = @ \cup {"activityLog"}]]
          /\ UNCHANGED <<tasks, assignments>>
  /\ TaskFrame

\* prisma.task.update with updateData
updateTaskUpdate(slot) ==
  /\ reqs[slot].op = "updateTask" /\ reqs[slot].pc = "update"
  /\ LET r == reqs[slot] IN
     IF r.task \notin DOMAIN tasks
     THEN OnlyReqs(slot, Finish(r, 500))
     ELSE /\ tasks' = [tasks EXCEPT ![r.task] =
               [@ EXCEPT
                  !.priority = IF r.data.priority = {} THEN @ ELSE The(r.data.priority),
                  !.status = IF statusChanges(r) THEN The(r.data.status) ELSE @]]
          /\ reqs' = [reqs EXCEPT ![slot] =
               LET w == [r EXCEPT !.wrote =
                           IF r.data.priority # {} \/ statusChanges(r)
                           THEN @ \cup {"task"} ELSE @]
               IN
               IF r.data.assigneeIds = {} THEN Finish(w, 200)
               ELSE IF r.role = "Manager" THEN [w EXCEPT !.pc = "roles"]
               ELSE [w EXCEPT !.pc = "deleteAssignments"]]
          /\ UNCHANGED <<assignments, activityLog>>
  /\ TaskFrame

\* prisma.user.findMany for a Manager's assignee list
updateTaskRoles(slot) ==
  /\ reqs[slot].op = "updateTask" /\ reqs[slot].pc = "roles"
  /\ LET r == reqs[slot] IN
     OnlyReqs(slot,
       IF hasAdmin(The(r.data.assigneeIds)) THEN Finish(r, 403)
       ELSE [r EXCEPT !.pc = "deleteAssignments"])
  /\ TaskFrame

\* prisma.taskAssignment.deleteMany
updateTaskDeleteAssignments(slot) ==
  /\ reqs[slot].op = "updateTask" /\ reqs[slot].pc = "deleteAssignments"
  /\ LET r == reqs[slot]
         w == [r EXCEPT !.wrote = @ \cup {"assignments"}]
     IN
     /\ assignments' = {a \in assignments : a[1] # r.task}
     /\ reqs' = [reqs EXCEPT ![slot] =
          IF The(r.data.assigneeIds) = {} THEN Finish(w, 200)
          ELSE [w EXCEPT !.pc = "createAssignments"]]
  /\ UNCHANGED <<tasks, activityLog>>
  /\ TaskFrame

\* rows createMany inserts; it throws on a missing task or user (foreign keys)
\* and on a row that already exists (the table's key)
canCreateAssignments(taskId, assigneeIds) ==
  /\ taskId \in DOMAIN tasks
  /\ assigneeIds \subseteq DOMAIN users
  /\ \A u \in assigneeIds : <<taskId, u>> \notin assignments

\* prisma.taskAssignment.createMany
updateTaskCreateAssignments(slot) ==
  /\ reqs[slot].op = "updateTask" /\ reqs[slot].pc = "createAssignments"
  /\ LET r == reqs[slot]
         ids == The(r.data.assigneeIds)
     IN
     IF ~canCreateAssignments(r.task, ids)
     THEN OnlyReqs(slot, Finish(r, 500))
     ELSE /\ assignments' = assignments \cup {<<r.task, u>> : u \in ids}
          /\ reqs' = [reqs EXCEPT ![slot] = [r EXCEPT !.pc = "logAssigned"]]
          /\ UNCHANGED <<tasks, activityLog>>
  /\ TaskFrame

\* prisma.activityLog.create, type assigned
updateTaskLogAssigned(slot) ==
  /\ reqs[slot].op = "updateTask" /\ reqs[slot].pc = "logAssigned"
  /\ Len(activityLog) < MaxLog
  /\ LET r == reqs[slot] IN
     IF r.task \notin DOMAIN tasks
     THEN OnlyReqs(slot, Finish(r, 500))
     ELSE /\ activityLog' = Append(activityLog, LogRow("assigned", r.task, r.actor, {}, {}))
          /\ reqs' = [reqs EXCEPT ![slot] =
               Finish([r EXCEPT !.wrote = @ \cup {"activityLog"}], 200)]
          /\ UNCHANGED <<tasks, assignments>>
  /\ TaskFrame

\* createTask, behind requireAdminOrManager: prisma.sprint.findUnique
createTaskSprint(slot, client, data) ==
  /\ Free(slot)
  /\ LET auth == authenticate(accessTokens[client])
         r == Req("createTask", "sprint", auth, 0, data)
     IN
     OnlyReqs(slot,
       IF auth = {} THEN Finish(r, 401)
       ELSE IF ~requireAdminOrManager(The(auth)) THEN Finish(r, 403)
       ELSE IF The(data.sprintId) \notin Sprints THEN Finish(r, 404)
       ELSE [r EXCEPT !.pc = "create"])
  /\ TaskFrame

TaskRow(status, priority, creatorId, sprintId) ==
  [status |-> status, priority |-> priority, creatorId |-> creatorId,
   sprintId |-> sprintId]

\* prisma.task.create
createTaskCreate(slot) ==
  /\ reqs[slot].op = "createTask" /\ reqs[slot].pc = "create"
  /\ nextTaskId <= MaxTasks
  /\ LET r == reqs[slot]
         w == [r EXCEPT !.task = nextTaskId, !.wrote = @ \cup {"task"}]
     IN
     /\ tasks' = Put(tasks, nextTaskId,
          TaskRow(IF r.data.status = {} THEN "ToDo" ELSE The(r.data.status),
                  IF r.data.priority = {} THEN "Medium" ELSE The(r.data.priority),
                  r.actor, The(r.data.sprintId)))
     /\ nextTaskId' = nextTaskId + 1
     /\ reqs' = [reqs EXCEPT ![slot] =
          IF r.data.assigneeIds # {} /\ The(r.data.assigneeIds) # {}
          THEN IF r.role = "Manager" THEN [w EXCEPT !.pc = "roles"]
               ELSE [w EXCEPT !.pc = "createAssignments"]
          ELSE [w EXCEPT !.pc = "logCreated"]]
  /\ UNCHANGED <<assignments, activityLog>>
  /\ UNCHANGED <<UserState, now, ClientState, InviteState, ProjectState, last>>

\* prisma.user.findMany for a Manager's assignee list
createTaskRoles(slot) ==
  /\ reqs[slot].op = "createTask" /\ reqs[slot].pc = "roles"
  /\ LET r == reqs[slot] IN
     OnlyReqs(slot,
       IF hasAdmin(The(r.data.assigneeIds)) THEN [r EXCEPT !.pc = "rollback"]
       ELSE [r EXCEPT !.pc = "createAssignments"])
  /\ TaskFrame

\* prisma.task.delete: the row goes, and with it the rows that reference it
deleteTaskRows(id) ==
  /\ tasks' = Drop(tasks, id)
  /\ assignments' = {a \in assignments : a[1] # id}
  /\ activityLog' = SelectSeq(activityLog, LAMBDA row : row.taskId # id)

\* the Manager named an Admin and is answered 403 with the row left in place
createTaskRollbackNoDelete(slot) ==
  /\ reqs[slot].op = "createTask" /\ reqs[slot].pc = "rollback"
  /\ OnlyReqs(slot, Finish(reqs[slot], 403))
  /\ TaskFrame

\* the Manager named an Admin: prisma.task.delete on the row just created
createTaskRollback(slot) ==
  /\ reqs[slot].op = "createTask" /\ reqs[slot].pc = "rollback"
  /\ LET r == reqs[slot] IN
     IF r.task \notin DOMAIN tasks
     THEN OnlyReqs(slot, Finish(r, 500))
     ELSE /\ deleteTaskRows(r.task)
          /\ reqs' = [reqs EXCEPT ![slot] = Finish(r, 403)]
  /\ TaskFrame

\* prisma.taskAssignment.createMany
createTaskCreateAssignments(slot) ==
  /\ reqs[slot].op = "createTask" /\ reqs[slot].pc = "createAssignments"
  /\ LET r == reqs[slot]
         ids == The(r.data.assigneeIds)
     IN
     IF ~canCreateAssignments(r.task, ids)
     THEN OnlyReqs(slot, Finish(r, 500))
     ELSE /\ assignments' = assignments \cup {<<r.task, u>> : u \in ids}
          /\ reqs' = [reqs EXCEPT ![slot] =
               [r EXCEPT !.pc = "logCreated", !.wrote = @ \cup {"assignments"}]]
          /\ UNCHANGED <<tasks, activityLog>>
  /\ TaskFrame

\* prisma.activityLog.create, type created, and the 201 (the findUnique that
\* follows only reloads the row for the response)
createTaskLogCreated(slot) ==
  /\ reqs[slot].op = "createTask" /\ reqs[slot].pc = "logCreated"
  /\ Len(activityLog) < MaxLog
  /\ LET r == reqs[slot] IN
     IF r.task \notin DOMAIN tasks
     THEN OnlyReqs(slot, Finish(r, 500))
     ELSE /\ activityLog' = Append(activityLog, LogRow("created", r.task, r.actor, {}, {}))
          /\ reqs' = [reqs EXCEPT ![slot] =
               Finish([r EXCEPT !.wrote = @ \cup {"activityLog"}], 201)]
          /\ UNCHANGED <<tasks, assignments>>
  /\ TaskFrame

\* deleteTask, behind requireAdminOrManager: prisma.task.findUnique
deleteTaskFind(slot, client, id) ==
  /\ Free(slot)
  /\ LET auth == authenticate(accessTokens[client])
         r == Req("deleteTask", "find", auth, id, NoData)
     IN
     OnlyReqs(slot,
       IF auth = {} THEN Finish(r, 401)
       ELSE IF ~requireAdminOrManager(The(auth)) THEN Finish(r, 403)
       ELSE IF id \notin DOMAIN tasks THEN Finish(r, 404)
       ELSE IF r.role # "Admin" /\ r.role # "Manager" /\ tasks[id].creatorId # r.actor
       THEN Finish(r, 403)
       ELSE [r EXCEPT !.pc = "delete", !.existing = {tasks[id]}])
  /\ TaskFrame

\* prisma.task.delete
deleteTaskDelete(slot) ==
  /\ reqs[slot].op = "deleteTask" /\ reqs[slot].pc = "delete"
  /\ LET r == reqs[slot] IN
     IF r.task \notin DOMAIN tasks
     THEN OnlyReqs(slot, Finish(r, 500))
     ELSE /\ deleteTaskRows(r.task)
          /\ reqs' = [reqs EXCEPT ![slot] =
               Finish([r EXCEPT !.wrote = @ \cup {"task"}], 200)]
  /\ TaskFrame

----------------------------------------------------------------------------
(* Reads.  Each is one query; the response records the tasks whose data it
   carries. *)

ReadFrame == UNCHANGED <<UserState, now, ClientState, InviteState, TaskState>>

\* the Member visibility predicate: creator or assignee
hasAccess(reqUser, id) ==
  \/ tasks[id].creatorId = reqUser.id
  \/ <<id, reqUser.id>> \in assignments

\* a task as a response carries it: its id, its creator and its assignees
TaskView(id) ==
  [id |-> id, creatorId |-> tasks[id].creatorId,
   assignees |-> {a[2] : a \in {x \in assignments : x[1] = id}}]

getTaskById(client, id) ==
  /\ LET auth == authenticate(accessTokens[client]) IN
     last' =
       IF auth = {} THEN Reply("getTaskById", 401, auth, id, {})
       ELSE IF id \notin DOMAIN tasks THEN Reply("getTaskById", 404, auth, id, {})
       ELSE IF /\ The(auth).role # "Admin" /\ The(auth).role # "Manager"
               /\ ~hasAccess(The(auth), id)
       THEN Reply("getTaskById", 403, auth, id, {})
       ELSE Resp("getTaskById", 200, auth, id, {}, {}, {}, {TaskView(id)})
  /\ ReadFrame

Projects == {"p1"}

\* the project each sprint belongs to
sprintProject == [s \in Sprints |-> "p1"]

\* the title every createTask body carries, as its characters; the bodies
\* carry no description
taskTitle == <<"F", "i", "x">>

\* mode: 'insensitive' compares letters whatever their case
lower(c) == IF c = "F" THEN "f" ELSE c

\* { contains: search, mode: 'insensitive' } on a text
contains(text, search) ==
  \E k \in 0..(Len(text) - Len(search)) :
    \A j \in 1..Len(search) : lower(text[k + j]) = lower(search[j])

NoFilters ==
  [projectId |-> {}, sprintId |-> {}, assigneeId |-> {}, status |-> {},
   priority |-> {}, search |-> {}]

\* the where clause of getTasks, as the rows it selects.  A later assignment
\* to where.OR replaces an earlier one: for a caller who is neither Admin nor
\* Manager the creator-or-assignee OR takes the place of the search OR.
taskWhere(reqUser, filters, id) ==
  /\ filters.sprintId # {} => tasks[id].sprintId \in filters.sprintId
  /\ filters.projectId # {} =>
       /\ tasks[id].sprintId \in DOMAIN sprintProject
       /\ sprintProject[tasks[id].sprintId] \in filters.projectId
  /\ filters.assigneeId # {} =>
       \E u \in filters.assigneeId : <<id, u>> \in assignments
  /\ filters.status # {} => tasks[id].status \in filters.status
  /\ filters.priority # {} => tasks[id].priority \in filters.priority
  /\ IF reqUser.role # "Admin" /\ reqUser.role # "Manager"
     THEN hasAccess(reqUser, id)
     ELSE filters.search # {} => contains(taskTitle, The(filters.search))

\* getTasks, first page (no more tasks exist than one page holds)
getTasks(client, filters) ==
  /\ LET auth == authenticate(accessTokens[client]) IN
     last' =
       IF auth = {} THEN Reply("getTasks", 401, auth, 0, filters)
       ELSE Resp("getTasks", 200, auth, 0, filters, {}, {},
              {TaskView(id) :
                 id \in {x \in DOMAIN tasks : taskWhere(The(auth), filters, x)}})
  /\ ReadFrame

\* include: { tasks: ... } of a sprint row
sprintTasks(sprintId) ==
  {TaskView(id) : id \in {x \in DOMAIN tasks : tasks[x].sprintId = sprintId}}

getSprintById(client, sprintId) ==
  /\ LET auth == authenticate(accessTokens[client]) IN
     last' =
       IF auth = {} THEN Reply("getSprintById", 401, auth, 0, {sprintId})
       ELSE IF sprintId \notin Sprints THEN Reply("getSprintById", 404, auth, 0, {sprintId})
       ELSE Resp("getSprintById", 200, auth, 0, {sprintId}, {}, {}, sprintTasks(sprintId))
  /\ ReadFrame

getSprints(client, projectId) ==
  /\ LET auth == authenticate(accessTokens[client]) IN
     last' =
       IF auth = {} THEN Reply("getSprints", 401, auth, 0, projectId)
       ELSE IF projectId = {} THEN Reply("getSprints", 400, auth, 0, projectId)
       ELSE Resp("getSprints", 200, auth, 0, projectId, {}, {},
              UNION {sprintTasks(sp) : sp \in {x \in Sprints : sprintProject[x] = The(projectId)}})
  /\ ReadFrame

----------------------------------------------------------------------------
(* Specifications *)

\* refresh tokens a client can present: a cookie it holds, none, or (invalid
\* as a refresh token) an access token
Presentable ==
  {{}} \cup {{cookies[c]} : c \in DOMAIN cookies}
       \cup {{accessTokens[c]} : c \in DOMAIN accessTokens}

\* registration, login, refresh and OAuth, with the Admin activating and
\* deleting accounts
NextAuth ==
  \/ \E e \in {"member@x", "new@x"}, r \in Opt(Roles) : register(e, "pw1", r)
  \/ \E e \in Emails, p \in Passwords : login(e, p)
  \/ \E t \in Presentable : refreshToken(t)
  \/ \E pr \in {"google", "facebook"}, a \in Assertions : oauth(pr, a)
  \/ \E i \in UserIds : activateUser(1, i)
  \/ \E i \in UserIds \ {2} : deleteUser(1, i)

SpecAuth == Init /\ [][NextAuth]_vars

\* the instants the clock stops at: each method's access and refresh expiry,
\* counted from 0
Instants ==
  {0, ms(CredentialsAccessExpiry), ms(OAuthAccessExpiry),
   ms(CredentialsRefreshExpiry), ms(OAuthRefreshExpiry)}

\* time passes, up to a later instant
Advance ==
  /\ \E t \in Instants : t > now /\ now' = t
  /\ UNCHANGED <<UserState, ClientState, InviteState, TaskState, last>>

\* the Member logging in with credentials and with Google, and refreshing,
\* as time passes
NextToken ==
  \/ \E p \in Passwords : login("member@x", p)
  \/ oauth("google", [valid |-> TRUE, email |-> {"member@x"}, picture |-> {}])
  \/ \E t \in Presentable : refreshToken(t)
  \/ Advance

SpecToken == Init /\ [][NextToken]_vars

\* the invitation life cycle
NextInvite ==
  \/ \E c \in {1, 3}, e \in {"member@x", "new@x"}, r \in {"Member", "Manager"} :
        inviteUser(c, e, r)
  \/ \E s \in Slots, t \in UserIds, p \in Passwords : acceptInviteFind(s, t, p)
  \/ \E s \in Slots : acceptInviteUpdate(s)
  \/ \E i \in {3, 4} : deactivateUser(1, i)
  \/ \E i \in UserIds \ {2} : deleteUser(1, i)
  \/ Tick

SpecInvite == Init /\ [][NextInvite]_vars

\* invitations accepted one request at a time: a request is answered before
\* the next one starts or the clock moves
NextAccept ==
  \/ acceptInviteUpdate(1)
  \/ /\ accepts[1].pc = "idle"
     /\ \/ \E c \in {1, 2}, e \in {"member@x", "new@x"}, r \in {"Member", "Manager"} :
             inviteUser(c, e, r)
        \/ \E t \in UserIds, p \in Passwords : acceptInviteFind(1, t, p)
        \/ \E p \in Passwords : login("new@x", p)
        \/ Tick

SpecAccept == Init /\ [][NextAccept]_vars

\* user management by the three seeded users
\* the three seeded clients creating and inviting users of every role, and the
\* Admin deleting users
NextManage ==
  \/ \E c \in DOMAIN SeedUsers, e \in {"member@x", "new@x"}, p \in Opt(Passwords),
        r \in Roles : createUser(c, e, p, r)
  \/ \E c \in DOMAIN SeedUsers, e \in {"member@x", "new@x"}, r \in Roles :
        inviteUser(c, e, r)
  \/ \E i \in UserIds : deleteUser(1, i)

SpecManage == Init /\ [][NextManage]_vars

NextUser ==
  \/ \E c, i \in DOMAIN SeedUsers, d \in UserData : updateUser(c, i, d)
  \/ \E c, i \in DOMAIN SeedUsers : activateUser(c, i)
  \/ \E c, i \in DOMAIN SeedUsers : deactivateUser(c, i)
  \/ \E c, i \in DOMAIN SeedUsers : deleteUser(c, i)

SpecUser == Init /\ [][NextUser]_vars

Body(status, priority, assigneeIds, sprintId) ==
  [status |-> status, priority |-> priority, assigneeIds |-> assigneeIds,
   sprintId |-> sprintId]

\* createTask bodies the clients send
CreateData ==
  {Body({}, {}, {}, {"s1"}), Body({"Review"}, {}, {}, {"s1"}),
   Body({"Done"}, {}, {}, {"s1"}), Body({}, {}, {{3}}, {"s1"}),
   Body({}, {}, {{1}}, {"s1"}), Body({}, {}, {}, {"s9"})}

\* updateTask bodies the clients send
UpdateData ==
  {Body({"InProgress"}, {}, {}, {}), Body({"Review"}, {}, {}, {}),
   Body({"Done"}, {}, {}, {}), Body({}, {}, {{3}}, {}), Body({}, {}, {{}}, {}),
   Body({}, {}, {{1}}, {}), Body({"Done"}, {}, {{1}}, {}),
   Body({}, {"High"}, {{1}}, {})}

TaskSteps(s) ==
  \/ updateTaskAccess(s)
  \/ updateTaskLogStatus(s)
  \/ updateTaskUpdate(s)
  \/ updateTaskRoles(s)
  \/ updateTaskDeleteAssignments(s)
  \/ updateTaskCreateAssignments(s)
  \/ updateTaskLogAssigned(s)
  \/ createTaskCreate(s)
  \/ createTaskRoles(s)
  \/ createTaskRollback(s)
  \/ createTaskCreateAssignments(s)
  \/ createTaskLogCreated(s)
  \/ deleteTaskDelete(s)

\* one task request at a time, every body by every seeded user
NextTask ==
  \/ \E c \in DOMAIN SeedUsers, d \in CreateData : createTaskSprint(1, c, d)
  \/ \E c \in DOMAIN SeedUsers, id \in TaskIds, d \in UpdateData : updateTaskFind(1, c, id, d)
  \/ \E c \in DOMAIN SeedUsers, id \in TaskIds : deleteTaskFind(1, c, id)
  \/ TaskSteps(1)

SpecTask == Init /\ [][NextTask]_vars

\* the queries the clients send to getTasks: no filter, or one
TaskFilters ==
  {NoFilters}
    \cup {[NoFilters EXCEPT !.sprintId = {x}] : x \in {"s1", "s9"}}
    \cup {[NoFilters EXCEPT !.projectId = {x}] : x \in {"p1", "p9"}}
    \cup {[NoFilters EXCEPT !.assigneeId = {x}] : x \in {2, 3}}
    \cup {[NoFilters EXCEPT !.status = {x}] : x \in {"ToDo", "Done"}}
    \cup {[NoFilters EXCEPT !.priority = {x}] : x \in {"Medium", "High"}}
    \cup {[NoFilters EXCEPT !.search = {x}] : x \in {<<"f", "i">>, <<"i", "i">>}}

\* the reads, over tasks an Admin or Manager creates, assigns and deletes
NextRead ==
  \/ \E c \in {1, 2}, a \in {{}, {{3}}} : createTaskSprint(1, c, Body({}, {}, a, {"s1"}))
  \/ \E a \in {{{}}, {{3}}} : updateTaskFind(1, 2, 1, Body({}, {}, a, {}))
  \/ deleteTaskFind(1, 1, 1)
  \/ createTaskCreate(1)
  \/ createTaskRoles(1)
  \/ createTaskCreateAssignments(1)
  \/ createTaskLogCreated(1)
  \/ updateTaskUpdate(1)
  \/ updateTaskRoles(1)
  \/ updateTaskDeleteAssignments(1)
  \/ updateTaskCreateAssignments(1)
  \/ updateTaskLogAssigned(1)
  \/ deleteTaskDelete(1)
  \/ \E c \in DOMAIN SeedUsers, id \in TaskIds : getTaskById(c, id)
  \/ \E c \in DOMAIN SeedUsers, f \in TaskFilters : getTasks(c, f)
  \/ \E c \in DOMAIN SeedUsers, sp \in {"s1", "s9"} : getSprintById(c, sp)
  \/ \E c \in DOMAIN SeedUsers, pr \in Opt(Projects) : getSprints(c, pr)

SpecRead == Init /\ [][NextRead]_vars

----------------------------------------------------------------------------
(* Project controller, behind router.use(authenticate); createProject and
   deleteProject also behind requireAdminOrManager.  One request at a time. *)

ProjectIds == 1..MaxProjects

ProjectFrame ==
  UNCHANGED <<UserState, now, ClientState, InviteState, tasks, nextTaskId,
              assignments, activityLog, reqs>>

\* request bodies of createProject and updateProject: a title, a managerId
ProjectData == [title : Opt({"t1", "t2"}), managerId : Opt({2, 3})]

ProjectRow(title, creatorId, managerId) ==
  [title |-> title, creatorId |-> creatorId, managerId |-> managerId]

createProject(client, data) ==
  LET auth == authenticate(accessTokens[client]) IN
  /\ IF auth = {}
     THEN /\ last' = Reply("createProject", 401, auth, 0, data)
          /\ UNCHANGED ProjectState
     ELSE IF ~requireAdminOrManager(The(auth))
     THEN /\ last' = Reply("createProject", 403, auth, 0, data)
          /\ UNCHANGED ProjectState
     ELSE /\ nextProjectId <= MaxProjects
          /\ data.title # {}
          /\ projects' = Put(projects, nextProjectId,
               ProjectRow(The(data.title), The(auth).id, data.managerId))
          /\ nextProjectId' = nextProjectId + 1
          /\ last' = Reply("createProject", 201, auth, nextProjectId, data)
  /\ ProjectFrame

\* the permission test of updateProject: 0 when it goes on to the update
updateProjectCheck(reqUser, project) ==
  IF /\ reqUser.role # "Admin"
     /\ project.creatorId # reqUser.id
     /\ project.managerId # {reqUser.id}
  THEN 403
  ELSE 0

updateProject(client, id, data) ==
  LET auth == authenticate(accessTokens[client]) IN
  /\ IF auth = {}
     THEN /\ last' = Reply("updateProject", 401, auth, id, data)
          /\ UNCHANGED projects
     ELSE IF id \notin DOMAIN projects
     THEN /\ last' = Reply("updateProject", 404, auth, id, data)
          /\ UNCHANGED projects
     ELSE IF updateProjectCheck(The(auth), projects[id]) # 0
     THEN /\ last' = Reply("updateProject",
                           updateProjectCheck(The(auth), projects[id]),
                           auth, id, data)
          /\ UNCHANGED projects
     ELSE /\ projects' = [projects EXCEPT ![id] =
               [@ EXCEPT
                  !.title = IF data.title = {} THEN @ ELSE The(data.title),
                  !.managerId = IF data.managerId = {} THEN @ ELSE data.managerId]]
          /\ last' = Reply("updateProject", 200, auth, id, data)
  /\ UNCHANGED nextProjectId
  /\ ProjectFrame

\* the permission test of deleteProject: 0 when it goes on to the delete
deleteProjectCheck(reqUser, project) ==
  IF reqUser.role # "Admin" /\ project.creatorId # reqUser.id THEN 403 ELSE 0

deleteProject(client, id) ==
  LET auth == authenticate(accessTokens[client]) IN
  /\ IF auth = {}
     THEN /\ last' = Reply("deleteProject", 401, auth, id, {})
          /\ UNCHANGED projects
     ELSE IF ~requireAdminOrManager(The(auth))
     THEN /\ last' = Reply("deleteProject", 403, auth, id, {})
          /\ UNCHANGED projects
     ELSE IF id \notin DOMAIN projects
     THEN /\ last' = Reply("deleteProject", 404, auth, id, {})
          /\ UNCHANGED projects
     ELSE IF deleteProjectCheck(The(auth), projects[id]) # 0
     THEN /\ last' = Reply("deleteProject",
                           deleteProjectCheck(The(auth), projects[id]),
                           auth, id, {})
          /\ UNCHANGED projects
     ELSE /\ projects' = Drop(projects, id)
          /\ last' = Reply("deleteProject", 200, auth, id, {})
  /\ UNCHANGED nextProjectId
  /\ ProjectFrame

\* every seeded user creating, updating and deleting projects
NextProject ==
  \E c \in DOMAIN SeedUsers :
    \/ \E d \in {x \in ProjectData : x.title = {"t1"}} : createProject(c, d)
    \/ \E id \in ProjectIds, d \in ProjectData : updateProject(c, id, d)
    \/ \E id \in ProjectIds : deleteProject(c, id)

SpecProject == Init /\ [][NextProject]_vars

\* two requests in flight: the Member's updateTask on one connection, the
\* Manager's requests on the other
NextRace ==
  \/ \E d \in {Body({"Review"}, {}, {}, {}), Body({"Done"}, {}, {}, {}),
               Body({}, {}, {{2}}, {})} :
        updateTaskFind(1, 3, 1, d)
  \/ \E d \in {Body({}, {}, {{3}}, {"s1"}), Body({"Review"}, {}, {{3}}, {"s1"}),
               Body({}, {}, {{1}}, {"s1"})} :
        createTaskSprint(2, 2, d)
  \/ \E d \in {Body({"Review"}, {}, {}, {}), Body({"Done"}, {}, {}, {}),
               Body({}, {}, {{}}, {}), Body({}, {}, {{3}}, {})} :
        updateTaskFind(2, 2, 1, d)
  \/ deleteTaskFind(2, 2, 1)
  \/ \E s \in Slots : TaskSteps(s)

SpecRace == Init /\ [][NextRace]_vars

\* requests that write "new@x", step by step on two slots: register, createUser
\* by the Manager, inviteUser by the Admin, OAuth logins, and the Admin
\* changing the email of user 2 or 3
NextEmail ==
  \E s \in Slots :
    \/ \E e \in {"member@x", "new@x"} : registerFind(s, e, "pw1", {})
    \/ createUserFind(s, 2, "new@x", {}, "Member")
    \/ inviteUserFind(s, 1, "new@x", "Member")
    \/ \E a \in {x \in Assertions : x.valid /\ x.email # {"member@x"}} :
         oauthFind(s, "google", a)
    \/ \E id \in {2, 3} :
         updateUserFind(s, 1, id, [NoUserData EXCEPT !.email = {"new@x"}])
    \/ userCreate(s)
    \/ oauthAvatar(s)
    \/ updateUserWrite(s)

SpecEmail == Init /\ [][NextEmail]_vars

----------------------------------------------------------------------------
(* Properties *)

\* C1: an updateTask request by a Member that asks for Done on a task whose
\* stored status is not Done writes to no table, at any point of any
\* interleaving with the Manager's requests, and is answered 403 or 400.
MemberNeverSetsDone ==
  \A s \in Slots :
    LET r == reqs[s] IN
    (/\ r.op = "updateTask" /\ r.role = "Member"
     /\ r.data.status = {"Done"}
     /\ r.existing # {} /\ The(r.existing).status # "Done")
    => /\ r.wrote = {}
       /\ r.pc = "done" => r.code \in {400, 403}

\* C1 happens: a Member with access asked for Done on a task in Review and was
\* answered 403, the task still in Review
MemberDoneRejected ==
  \E s \in Slots :
    LET r == reqs[s] IN
    /\ r.op = "updateTask" /\ r.role = "Member" /\ r.pc = "done" /\ r.code = 403
    /\ r.data.status = {"Done"}
    /\ r.existing # {} /\ The(r.existing).status = "Review"
    /\ <<r.task, r.actor>> \in assignments
    /\ r.task \in DOMAIN tasks /\ tasks[r.task].status = "Review"

\* C2 as stated: a login answered 200 is a login of an active user
InactiveCannotLogin ==
  (last.op = "login" /\ last.code = 200 /\ last.target \in DOMAIN users)
  => users[last.target].isActive

\* C3 as stated: a Manager's updateTask naming an Admin among assigneeIds,
\* once answered 403, has written to no table
ManagerAdminAssigneeWritesNothing ==
  \A s \in Slots :
    LET r == reqs[s] IN
    (/\ r.op = "updateTask" /\ r.role = "Manager" /\ r.pc = "done" /\ r.code = 403
     /\ r.data.assigneeIds # {} /\ hasAdmin(The(r.data.assigneeIds)))
    => r.wrote = {}

\* C4 as stated: a task becomes Done only from Review, and no task is created
\* in Done
DoneOnlyFromReview ==
  [][\A id \in DOMAIN tasks' :
       tasks'[id].status = "Done"
       => /\ id \in DOMAIN tasks
          /\ tasks[id].status \in {"Review", "Done"}]_vars

\* C4, amended: a task becomes Done (from any status, or at creation) only in a
\* step of an updateTask or createTask request whose caller is Admin or Manager
DoneOnlyByAdminOrManager ==
  [][\A id \in DOMAIN tasks' :
       (/\ tasks'[id].status = "Done"
        /\ id \in DOMAIN tasks => tasks[id].status # "Done")
       => \E s \in Slots :
            /\ reqs'[s] # reqs[s]
            /\ reqs[s].op \in {"updateTask", "createTask"}
            /\ reqs[s].role \in {"Admin", "Manager"}]_vars

\* C4 happens: an Admin or Manager took a task from ToDo straight to Done
ForcedDone ==
  \E s \in Slots :
    LET r == reqs[s] IN
    /\ r.op = "updateTask" /\ r.pc = "done" /\ r.code = 200
    /\ r.role \in {"Admin", "Manager"}
    /\ r.data.status = {"Done"}
    /\ r.existing # {} /\ The(r.existing).status = "ToDo"
    /\ r.task \in DOMAIN tasks /\ tasks[r.task].status = "Done"

\* C5 as stated: every activateUser, deactivateUser or updateUser(isActive)
\* request of a Member is rejected
MemberIsActiveRequestsRejected ==
  (/\ last.role = "Member"
   /\ \/ last.op \in {"activateUser", "deactivateUser"}
      \/ last.op = "updateUser" /\ last.req.isActive # {})
  => last.code # 200

\* C6: a user's role changes only in an updateUser answered 200 to an Admin
\* naming another user, and an updateUser carrying a role from a Manager or a
\* Member is rejected
RoleChangesOnlyByAdminOnOther ==
  [][/\ \A i \in DOMAIN users \cap DOMAIN users' :
          users'[i].role # users[i].role
          => /\ last'.op = "updateUser" /\ last'.code = 200
             /\ last'.role = "Admin"
             /\ last'.target = i /\ last'.actor # i
     /\ (/\ last'.op = "updateUser" /\ last'.role \in {"Manager", "Member"}
         /\ last'.req.role # {})
        => last'.code # 200 /\ users' = users]_vars

\* C6 happens: the Admin has changed another user's role
RoleChangedByAdmin ==
  /\ last.op = "updateUser" /\ last.code = 200 /\ last.role = "Admin"
  /\ last.req.role # {}
  /\ last.target # last.actor
  /\ last.target \in DOMAIN users
  /\ users[last.target].role # SeedUsers[last.target].role
  /\ {users[last.target].role} = last.req.role

\* C7 as stated: a deleteUser answered 200 was sent by an Admin or Manager and
\* names another user
DeleteOnlyByAdminOrManager ==
  (last.op = "deleteUser" /\ last.code = 200)
  => last.role \in {"Admin", "Manager"} /\ last.actor # last.target

\* C8 as stated: every task in a read answered to a Member was created by that
\* Member or is assigned to them
MemberReadsOnlyOwnTasks ==
  (/\ last.role = "Member" /\ last.code = 200
   /\ last.op \in {"getTaskById", "getTasks", "getSprintById", "getSprints"})
  => \A t \in last.data : t.creatorId = last.actor \/ last.actor \in t.assignees

\* C9 as stated: at most one acceptInvite request succeeds with a given token
InviteTokenSingleUse == \A t \in UserIds : acceptCount[t] <= 1

\* C10 as stated: the access token a refresh issues has the expiry of the
\* method whose refresh token was presented
RefreshKeepsMethod ==
  (last.op = "refresh" /\ last.code = 200)
  => \A rt \in last.req, at \in last.accessToken :
       at.expiresIn = IF rt.expiresIn = OAuthRefreshExpiry
                      THEN OAuthAccessExpiry ELSE CredentialsAccessExpiry

\* C11 as stated: a refresh answered 200 with an access token names a user
\* whose isActive flag is set
RefreshOnlyForActive ==
  (last.op = "refresh" /\ last.code = 200 /\ last.target \in DOMAIN users)
  => users[last.target].isActive

\* C12 as stated: an OAuth request whose email belongs to an existing inactive
\* user is not answered 200, sets no token and leaves the user as it was
OAuthRejectsInactive ==
  [][(/\ last'.op = "oauth"
      /\ last'.target \in DOMAIN users
      /\ ~users[last'.target].isActive)
     => /\ last'.code # 200
        /\ last'.accessToken = {} /\ last'.cookie = {}
        /\ users' = users]_vars

OAuthWithoutEmailFails ==
  [][\A pr \in {"google", "facebook"}, a \in Assertions :
       (a.email = {} /\ oauth(pr, a))
       => /\ last'.code = 401
          /\ last'.accessToken = {} /\ last'.cookie = {}
          /\ users' = users /\ nextUserId' = nextUserId
          /\ accessTokens' = accessTokens /\ cookies' = cookies]_vars

\* C14 happens: a valid assertion without an email was refused
OAuthEmailRequired ==
  /\ last.op = "oauth" /\ last.code = 401
  /\ last.data = {"Email is required"}
  /\ last.accessToken = {} /\ last.cookie = {}

\* C15: in every store, a login with a password that is no stored user's is
\* refused with the same status and message whether or not a user with the
\* email exists, active or not
LoginHidesEmail ==
  \A e \in Emails, p \in Passwords :
    (\A i \in DOMAIN users : ~comparePassword(p, users[i].password))
    => /\ loginCheck(findByEmail(e), p) = loginCheck({}, p)
       /\ loginMessage(findByEmail(e), p) = loginMessage({}, p)
       /\ loginCheck({}, p) = 401

\* C15 happens: a login with a wrong password for the email of an existing
\* inactive user was answered 401
WrongPasswordRefused ==
  /\ last.op = "login" /\ last.code = 401
  /\ last.target \in DOMAIN users
  /\ ~users[last.target].isActive
  /\ \A i \in DOMAIN users : ~comparePassword(last.req.password, users[i].password)

\* C16: under every interleaving of register, createUser, inviteUser,
\* updateUser changing an email and OAuth logins, no two user rows ever hold
\* the same email, and a request answered while another row holds the email
\* it writes is answered with a failure and leaves the user table as it was.
EmailGloballyUnique ==
  [][/\ \A i, j \in DOMAIN users' : users'[i].email = users'[j].email => i = j
     /\ \A s \in Slots :
          (/\ pending'[s] # pending[s]
           /\ pending'[s].pc = "done"
           /\ \E e \in pending'[s].email, i \in DOMAIN users :
                i # pending'[s].id /\ users[i].email = e)
          => pending'[s].code \in {400, 401, 403, 500} /\ users' = users]_vars

\* a request that found the email free was refused by the store, because a
\* request running beside it wrote the email first
DuplicateWriteRefused ==
  \E s \in Slots :
    /\ pending[s].pc = "done"
    /\ pending[s].code = 500
    /\ pending[s].row # {} \/ pending[s].data.email # {}
    /\ \E e \in pending[s].email :
         Cardinality({i \in DOMAIN users : users[i].email = e}) = 1

\* C17: whenever a task's status changes, a status_changed ActivityLog row of
\* that task records the change, its oldStatus the status just before the
\* change and its newStatus the status just after.
StatusChangeLogged ==
  [][\A t \in DOMAIN tasks \cap DOMAIN tasks' :
       tasks'[t].status # tasks[t].status
       => \E k \in DOMAIN activityLog' :
            /\ activityLog'[k].type = "status_changed"
            /\ activityLog'[k].taskId = t
            /\ activityLog'[k].oldStatus = {tasks[t].status}
            /\ activityLog'[k].newStatus = {tasks'[t].status}]_vars

\* C18: a Manager's createTask that lists an Admin among assigneeIds is
\* answered with a rejection, and when it is answered the store holds no task,
\* TaskAssignment or ActivityLog row of the task it created.
ManagerCreateNamingAdminLeavesNothing ==
  [][\A s \in Slots :
       (/\ reqs'[s] # reqs[s]
        /\ reqs'[s].op = "createTask" /\ reqs'[s].pc = "done"
        /\ reqs'[s].role = "Manager"
        /\ \E ids \in reqs'[s].data.assigneeIds :
             \E u \in ids \cap DOMAIN users : users[u].role = "Admin")
       => /\ reqs'[s].code \in {403, 404, 500}
          /\ reqs'[s].task \notin DOMAIN tasks'
          /\ \A a \in assignments' : a[1] # reqs'[s].task
          /\ \A k \in DOMAIN activityLog' :
               activityLog'[k].taskId # reqs'[s].task]_vars

\* the Manager's createTask naming the Admin was answered 403 after its task
\* row had been created and deleted again
ManagerCreateNamingAdminRejected ==
  \E s \in Slots :
    /\ reqs[s].op = "createTask" /\ reqs[s].pc = "done" /\ reqs[s].code = 403
    /\ reqs[s].role = "Manager" /\ reqs[s].data.assigneeIds = {{1}}
    /\ reqs[s].task \in TaskIds
    /\ "task" \in reqs[s].wrote
    /\ reqs[s].task \notin DOMAIN tasks

\* C19: updateProject and deleteProject by a Manager on an existing project
\* succeed, whoever created the project and whoever manages it.
ManagerProjectWritesSucceed ==
  [][(/\ last'.op \in {"updateProject", "deleteProject"}
      /\ last'.role = "Manager"
      /\ last'.target \in DOMAIN projects)
     => last'.code = 200]_vars

\* C20: a token issued on a login, an OAuth login or a refresh verifies, as
\* the kind it was issued as, to the id, email and role of the user it was
\* issued for at every instant before its method's configured expiry (access:
\* 20 minutes with credentials, 1 hour with oauth; refresh: 7 days and 30
\* days), and fails to verify from that instant on.
TokenRoundTrip ==
  [][(last'.op \in {"login", "oauth", "refresh"} /\ last'.code = 200 /\ now' = now)
     => LET method == IF last'.op = "oauth" THEN "oauth" ELSE "credentials"
            user == [id |-> last'.target, email |-> users'[last'.target].email,
                     role |-> users'[last'.target].role]
            life == [access |-> IF method = "oauth" THEN 60 ELSE 20,
                     refresh |-> IF method = "oauth" THEN 43200 ELSE 10080]
            Holds(tok, kind, span) ==
              \A d \in {0, 1, span - 1, span, span + 1, 2 * span} :
                jwtVerify(tok, kind, now' + d) = IF d < span THEN {user} ELSE {}
        IN
        /\ \A tok \in last'.accessToken : Holds(tok, "access", life.access)
        /\ \A tok \in last'.cookie : Holds(tok, "refresh", life.refresh)]_vars

\* a refresh token issued for an existing user is refused by refreshToken
\* once its expiry has passed
ExpiredRefreshTokenRefused ==
  /\ last.op = "refresh" /\ last.code = 401
  /\ \E tok \in last.req :
       /\ tok.kind = "refresh" /\ tok.id \in DOMAIN users
       /\ tok.iat < now /\ now >= tok.exp

\* C21: acceptInvite with a token that no user row holds unexpired is answered
\* 400 and changes no user and no session; with a token a row holds unexpired
\* it sets that row's password to the hash of the new one, clears its invite
\* token and expiry, makes it active, leaves every other row as it was, and
\* returns an access and a refresh token for that user.
AcceptInviteContract ==
  [][/\ \A t \in UserIds, p \in Passwords :
          (/\ acceptInviteFind(1, t, p)
           /\ ~\E i \in DOMAIN users :
                /\ users[i].inviteToken = {t}
                /\ \E e \in users[i].inviteTokenExpiry : e >= now)
          => /\ last'.op = "acceptInvite" /\ last'.code = 400
             /\ last'.accessToken = {} /\ last'.cookie = {}
             /\ users' = users /\ accessTokens' = accessTokens
             /\ cookies' = cookies /\ accepts'[1].pc = "idle"
     /\ (accepts[1].pc = "update" /\ accepts'[1].pc = "idle")
        => LET id == accepts[1].user IN
           /\ users[id].inviteToken = {accepts[1].token}
           /\ \E e \in users[id].inviteTokenExpiry : e >= now
           /\ last'.op = "acceptInvite" /\ last'.code = 200 /\ last'.target = id
           /\ DOMAIN users' = DOMAIN users
           /\ users'[id] = [users[id] EXCEPT
                              !.password = hashPassword(accepts[1].password),
                              !.inviteToken = {}, !.inviteTokenExpiry = {},
                              !.isActive = TRUE]
           /\ \A j \in DOMAIN users \ {id} : users'[j] = users[j]
           /\ \E tok \in last'.accessToken :
                /\ jwtVerify(tok, "access", now) =
                     {[id |-> id, email |-> users[id].email, role |-> users[id].role]}
                /\ accessTokens'[id] = tok
           /\ \E tok \in last'.cookie :
                jwtVerify(tok, "refresh", now) =
                  {[id |-> id, email |-> users[id].email, role |-> users[id].role]}]_vars

\* the invited user accepted with a new password, and a later request with
\* the same, now spent, token was refused
AcceptedThenRefused ==
  /\ last.op = "acceptInvite" /\ last.code = 400
  /\ \E i \in DOMAIN users \ DOMAIN SeedUsers :
       /\ users[i].inviteToken = {} /\ users[i].isActive
       /\ users[i].password = hashPassword("pw2")
       /\ acceptCount[last.req.token] = 1

\* C22: the list getTasks answers a Member with is exactly the tasks that
\* pass every filter of the query (sprintId, projectId, assigneeId, status,
\* priority, search) and that the Member created or is assigned to.
MemberTaskListExact ==
  [][(/\ last'.op = "getTasks" /\ last'.code = 200 /\ last'.role = "Member"
      /\ reqs' = reqs)
     => LET f == last'.req
            me == last'.actor
            Wanted(id) ==
              /\ f.sprintId # {} => tasks[id].sprintId \in f.sprintId
              /\ f.projectId # {} => tasks[id].sprintId = "s1" /\ f.projectId = {"p1"}
              /\ f.assigneeId # {} => \E u \in f.assigneeId : <<id, u>> \in assignments
              /\ f.status # {} => tasks[id].status \in f.status
              /\ f.priority # {} => tasks[id].priority \in f.priority
              /\ f.search # {} => f.search = {<<"f", "i">>}
              /\ tasks[id].creatorId = me \/ <<id, me>> \in assignments
        IN
        {t.id : t \in last'.data} = {id \in DOMAIN tasks : Wanted(id)}]_vars

\* C23: two updateTask requests that read the same status of one task and
\* were both accepted leave two status_changed rows with that one oldStatus,
\* one row for each request's new status, and the task holds the status of
\* one of the two requests: the other request's write is lost.
ConcurrentStatusWritesOverlap ==
  LET a == reqs[1]
      b == reqs[2]
  IN
  (/\ a.op = "updateTask" /\ b.op = "updateTask"
   /\ a.pc = "done" /\ b.pc = "done" /\ a.code = 200 /\ b.code = 200
   /\ a.task = b.task /\ a.task \in DOMAIN tasks
   /\ a.data.status # {} /\ b.data.status # {}
   /\ a.existing # {} /\ b.existing # {}
   /\ The(a.existing).status = The(b.existing).status
   /\ a.data.status # {The(a.existing).status}
   /\ b.data.status # {The(b.existing).status})
  => /\ \A r \in {a, b} :
          \E k \in DOMAIN activityLog :
            activityLog[k] = LogRow("status_changed", r.task, r.actor,
                                    {The(r.existing).status}, r.data.status)
     /\ Cardinality({k \in DOMAIN activityLog :
                       /\ activityLog[k].type = "status_changed"
                       /\ activityLog[k].taskId = a.task
                       /\ activityLog[k].oldStatus = {The(a.existing).status}}) = 2
     /\ {tasks[a.task].status} \in {a.data.status, b.data.status}

\* the Member's and the Manager's requests both read ToDo and were both
\* answered 200; the task holds one status, the other write is gone
LostStatusUpdate ==
  /\ reqs[1].op = "updateTask" /\ reqs[2].op = "updateTask"
  /\ reqs[1].pc = "done" /\ reqs[2].pc = "done"
  /\ reqs[1].code = 200 /\ reqs[2].code = 200
  /\ reqs[1].existing # {} /\ reqs[2].existing # {}
  /\ The(reqs[1].existing).status = "ToDo" /\ The(reqs[2].existing).status = "ToDo"
  /\ reqs[1].data.status = {"Review"} /\ reqs[2].data.status = {"Done"}
  /\ 1 \in DOMAIN tasks /\ tasks[1].status = "Review"
  /\ Len(activityLog) = 3

\* C24: an access token answered to an account that was created from outside
\* (by register or a first OAuth login) and that no Admin or Manager has
\* activated is never authorized as Admin or Manager.
OutsiderNeverPrivileged ==
  (/\ last.op \in {"login", "oauth", "refresh"} /\ last.code = 200
   /\ last.target \in DOMAIN users \ DOMAIN SeedUsers
   /\ ~users[last.target].isActive)
  => \A tok \in last.accessToken :
       \A reqUser \in authenticate(tok) : ~requireAdminOrManager(reqUser)

\* C25: a TaskAssignment row naming an Admin user is written only by a
\* request of an Admin.
AdminAssignedOnlyByAdmin ==
  [][\A a \in assignments' \ assignments :
       (a[2] \in DOMAIN users /\ users[a[2]].role = "Admin")
       => \E s \in Slots :
            /\ reqs[s].pc = "createAssignments" /\ reqs'[s] # reqs[s]
            /\ reqs[s].role = "Admin"]_vars

\* C26: every request is decided under the role the caller's user row holds
\* when the request arrives, whatever role the presented token carries, and a
\* request whose token names a user that no longer exists is answered 401 and
\* changes nothing.
AuthorizationUsesStoredRole ==
  [][(last' # last)
     => IF last'.actor # 0
        THEN /\ last'.actor \in DOMAIN users
             /\ last'.role = users[last'.actor].role
        ELSE last'.code = 401 /\ users' = users]_vars

\* the Manager, promoted to Admin since their token was issued, changed a
\* user's role with that token
PromotedManagerActsAsAdmin ==
  /\ last.op = "updateUser" /\ last.code = 200 /\ last.req.role # {}
  /\ last.actor \in DOMAIN accessTokens
  /\ accessTokens[last.actor].role = "Manager"
  /\ last.role = "Admin"

\* C27: no protected request is authorized for a user whose isActive flag is
\* false, whenever the token it presents was issued.
InactiveNeverAuthorized ==
  [][(last' # last /\ last'.actor # 0 /\ last'.actor \in DOMAIN users)
     => users[last'.actor].isActive]_vars

\* C28: when two updateTask requests that carry assigneeIds for one task have
\* both been answered 200, the task's assignees are the list of one of them.
AssigneesFromOneRequest ==
  LET a == reqs[1]
      b == reqs[2]
  IN
  (/\ a.op = "updateTask" /\ b.op = "updateTask"
   /\ a.pc = "done" /\ b.pc = "done" /\ a.code = 200 /\ b.code = 200
   /\ a.task = b.task /\ a.task \in DOMAIN tasks
   /\ a.data.assigneeIds # {} /\ b.data.assigneeIds # {})
  => {x[2] : x \in {y \in assignments : y[1] = a.task}}
       \in {The(a.data.assigneeIds), The(b.data.assigneeIds)}

\* C29: an inviteUser request by an Admin or a Manager whose email belongs to
\* a user row, active or not, is answered 400 and leaves every user row as it
\* was.
InviteLeavesExistingUser ==
  [][\A c \in {1, 3}, e \in {"member@x", "new@x"}, r \in {"Member", "Manager"} :
       (/\ inviteUser(c, e, r)
        /\ authenticate(accessTokens[c]) # {}
        /\ requireAdminOrManager(The(authenticate(accessTokens[c])))
        /\ findByEmail(e) # {})
       => last'.code = 400 /\ users' = users]_vars

\* an invitation naming the email of a deactivated user has been refused
InviteOfInactiveRefused ==
  /\ last.op = "inviteUser" /\ last.code = 400
  /\ last.target \in DOMAIN users
  /\ ~users[last.target].isActive

\* C30: a createUser or inviteUser request of a Manager never adds a user
\* whose role is Admin.
ManagerNeverCreatesAdmin ==
  [][(/\ last' # last
      /\ last'.op \in {"createUser", "inviteUser"}
      /\ last'.role = "Manager")
     => \A i \in DOMAIN users' \ DOMAIN users : users'[i].role # "Admin"]_vars

====
